---- MODULE Spec2Model ----
(***************************************************************************)
(* Sale transaction engine of supermercado-api: createSale, cancelSale,   *)
(* updatePaymentStatus (sale controller) and adjustStock, deleteProduct   *)
(* (product controller) running as concurrent request handlers against    *)
(* one MongoDB datastore.                                                  *)
(*                                                                         *)
(* createSale and cancelSale run inside a mongoose session transaction:    *)
(* the transaction reads from the snapshot taken by its first operation,   *)
(* sees its own writes, publishes them only at commitTransaction, and a    *)
(* write to a document that changed after the snapshot, or that another    *)
(* open transaction has written, throws WriteConflict.  The other handlers *)
(* read and write the committed data directly; their writes wait while an  *)
(* open transaction holds the document.                                    *)
(*                                                                         *)
(* Quantities and stock are JavaScript Numbers; the model counts them in   *)
(* QtyDen-ths of a unit so that non-integer request values are inputs.     *)
(* Money (subtotal, totalAmount) is counted in 1/(QtyDen * Percent) of a   *)
(* currency unit, so that quantity * price * (1 - discount / 100) is exact. *)
(*                                                                         *)
(* getAllSales and getSalesStats (sale controller) are read-only handlers   *)
(* that answer in one step from the committed ledger.                      *)
(***************************************************************************)
EXTENDS Integers, Sequences, FiniteSets, TLC

\* ------------------------------------------------------------------ bounds
NumProducts == 2      \* products in the catalog
MaxReq      == 2      \* request handlers in flight at once
MaxCalls    == 3      \* handler invocations and turns of the year in one behaviour
MaxSales    == 2      \* Sale records the ledger may hold
MaxItems    == 2      \* line items of one createSale request
MaxStock    == 2      \* largest stock (in units) the catalog is given
MaxQty      == 2      \* largest quantity (in units) a request names
QtyDen      == 2      \* quantities are multiples of 1/QtyDen
NumYears    == 2      \* calendar years the clock runs through
FirstYear   == 2024   \* the year the clock starts in
NumUsers    == 2      \* users that hold a token: user 1 is the admin
NumCustomers == 1     \* users a sale may name as its customer
BasePrice   == 100    \* product p is priced p * BasePrice
ShelfDiscount == 10   \* productSchema.discount of the products after the first
ItemDiscount == 50    \* a non-zero item.discount of a request
TaxInput    == 5      \* a non-zero body.tax of a request
PricingCalls == 2     \* handler invocations in one behaviour of SpecPricing
RemovalCalls == 3     \* handler invocations in one behaviour of SpecRemoved

\* ------------------------------------------------------- program constants
PadWidth    == 3      \* padStart(3, '0')
MinQuantity == 1      \* saleItemSchema.quantity.min
MinStock    == 0      \* productSchema.stock.min
Percent     == 100    \* discount / 100
MinDiscount == 0      \* saleItemSchema.discount.min
MaxDiscount == 100    \* saleItemSchema.discount.max
MinUnitPrice == 0     \* saleItemSchema.unitPrice.min
TopLimit    == 5      \* { $limit: 5 } of the top products
DayLimit    == 30     \* { $limit: 30 } of the sales by day

ProductIds == 1..NumProducts
Slots      == 1..MaxReq
SaleIds    == 1..MaxSales
Years      == FirstYear..(FirstYear + NumYears - 1)
UserIds    == 1..NumUsers
CustomerIds == 1..NumCustomers

\* Request values of item.quantity / body.quantity, in QtyDen-ths of a unit:
\* a negative one, zero, fractions and whole numbers.
Quantities == (-1)..(MaxQty * QtyDen)

\* saleSchema.paymentMethod.enum
PaymentMethods  == {"efectivo", "tarjeta_credito", "tarjeta_debito", "transferencia"}
\* saleSchema.paymentStatus.enum
PaymentStatuses == {"pendiente", "completado", "cancelado"}

Absent == "<undefined>"
\* Request values of body.paymentMethod / body.paymentStatus: absent, values
\* of the enumeration, and one outside it.
CreateMethodInputs == {Absent, "efectivo", "bitcoin"}
CreateStatusInputs == {Absent, "cancelado", "devuelto"}
UpdateMethodInputs == {Absent, "efectivo", "tarjeta_credito", "bitcoin"}
UpdateStatusInputs == {Absent, "pendiente", "completado", "cancelado", "devuelto"}
Operations == {"add", "subtract", "set", "multiply"}

\* No user / no customer / no date (undefined), and undefined for a numeric
\* field of a request body.
NoId   == 0
NoDate == 0
Unset  == -1

\* req.user: the decoded token {id, role} that verifyToken attaches, or
\* nothing for a caller that verifyApiKey let through.
NoUser == [id |-> NoId, role |-> Absent]
RoleOf(u) == IF u = 1 THEN "admin" ELSE "employee"
User(u) == [id |-> u, role |-> RoleOf(u)]
Callers == {User(u) : u \in UserIds} \cup {NoUser}

\* Request values of body.customer, item.discount and body.tax.
CustomerInputs == {NoId} \cup CustomerIds
DiscountInputs == {Unset, 0, ItemDiscount}
TaxInputs      == {Unset, TaxInput}
\* Request values of item.quantity that pass the validation: one unit, and
\* one unit and a fraction.
PricedQuantities == {QtyDen, QtyDen + 1}

\* req.query of getAllSales / getSalesStats: each parameter absent or one
\* value.
NoQuery ==
  [startDate |-> NoDate, endDate |-> NoDate, paymentStatus |-> Absent,
   paymentMethod |-> Absent, customerId |-> NoId, sellerId |-> NoId]
Queries ==
  [startDate : {NoDate, FirstYear + 1}, endDate : {NoDate, FirstYear},
   paymentStatus : {Absent, "completado"}, paymentMethod : {Absent, "efectivo"},
   customerId : {NoId, 1}, sellerId : {NoId, 1}]

VARIABLES products, sales, year, req, calls, stock0

vars == <<products, sales, year, req, calls, stock0>>

\* ---------------------------------------------------------------- helpers
\* The fields of the product documents that no handler of the model writes:
\* product p has code p and name p, costs p * BasePrice, and every product
\* but the first carries a shelf discount.
Catalog ==
  [p \in ProductIds |->
     [code |-> p, name |-> p, price |-> p * BasePrice,
      discount |-> IF p = 1 THEN 0 ELSE ShelfDiscount]]

NoProduct == [present |-> FALSE, stock |-> 0, isActive |-> FALSE]
NoView    == [p \in ProductIds |-> NoProduct]
NoNumber  == [year |-> 0, seq |-> <<>>]

\* Number.prototype.toString for a non-negative integer: its decimal digits.
RECURSIVE NumToString(_)
NumToString(n) == IF n < 10 THEN <<n>> ELSE Append(NumToString(n \div 10), n % 10)

\* String.prototype.padStart(width, ch)
RECURSIVE PadStart(_, _, _)
PadStart(s, width, ch) ==
  IF Len(s) >= width THEN s ELSE PadStart(<<ch>> \o s, width, ch)

\* Mutant of SaleNumber: the sequence is the count itself.
SaleNumberNoIncrement(y, salesCount) ==
  [year |-> y, seq |-> PadStart(NumToString(salesCount), PadWidth, 0)]

\* `V${year}-${(salesCount + 1).toString().padStart(3, '0')}`
SaleNumber(y, salesCount) ==
  [year |-> y, seq |-> PadStart(NumToString(salesCount + 1), PadWidth, 0)]

\* The request record of a handler that is not running.
IdleReq ==
  [op |-> "idle", pc |-> "done", resp |-> 0, msg |-> "",
   view |-> NoView, dirty |-> {}, staleP |-> {}, staleSale |-> FALSE,
   saleNumber |-> NoNumber, items |-> <<>>,
   method |-> Absent, status |-> Absent,
   ldMethod |-> Absent, ldStatus |-> Absent,
   saleId |-> 0, idx |-> 0, product |-> 0,
   ldStock |-> 0, newStock |-> 0, rolledBack |-> {},
   noItems |-> FALSE, seller |-> NoId, customer |-> NoId,
   total |-> 0, tax |-> 0, createdAt |-> NoDate, answer |-> <<>>,
   asked |-> <<>>]

\* A transaction is open from its first operation to commit/abort.
InTxn(rq, r) == rq[r].op \in {"createSale", "cancelSale"} /\ rq[r].pc # "done"

\* Another open transaction holds an uncommitted write of product p.
ProductLocked(p, r) ==
  \E o \in Slots \ {r} : InTxn(req, o) /\ p \in req[o].dirty

\* Another open transaction holds an uncommitted write of Sale id.
SaleLocked(id, r) ==
  \E o \in Slots \ {r} :
    req[o].op = "cancelSale" /\ req[o].pc = "commit" /\ req[o].saleId = id

\* Another open transaction holds an uncommitted insert of sale number n.
NumberPending(n, r) ==
  \E o \in Slots \ {r} :
    req[o].op = "createSale" /\ req[o].pc = "commit" /\ req[o].saleNumber = n

\* Mutant of NumberTaken: saleNumber carries no unique index.
NumberNeverTaken(n) == FALSE

\* The unique index on saleNumber already holds n.
NumberTaken(n) == \E i \in 1..Len(sales) : sales[i].saleNumber = n

\* Mutant of WriteConflictP: stock is read and written outside the session,
\* so that no write ever conflicts.
NoWriteConflictP(r, p) == FALSE

\* A transactional write of product p throws WriteConflict: the document
\* changed after the snapshot, or another open transaction has written it.
WriteConflictP(r, p) ==
  /\ p \notin req[r].dirty
  /\ (p \in req[r].staleP \/ ProductLocked(p, r))

\* Mutant of WriteConflictS: the sale is saved outside the session, so that
\* its write never conflicts.
NoWriteConflictS(r) == FALSE

\* A transactional write of the Sale read by cancelSale throws WriteConflict.
WriteConflictS(r) == req[r].staleSale \/ SaleLocked(req[r].saleId, r)

\* req after a committed write of products P / of Sale ids S by `by`:
\* every other open transaction's snapshot is now behind on them.
Published(rq, by, P, S) ==
  [o \in Slots |->
     IF o # by /\ InTxn(rq, o)
     THEN [rq[o] EXCEPT !.staleP = @ \cup P,
                        !.staleSale = @ \/ (rq[o].op = "cancelSale"
                                            /\ rq[o].saleId \in S)]
     ELSE rq[o]]

\* The handler has sent its response (res.status(code)): the session ends,
\* and what the transaction had not committed is discarded.
Finish(r, code, m) ==
  [IdleReq EXCEPT !.op = req[r].op, !.resp = code, !.msg = m,
                  !.saleId = req[r].saleId,
                  !.rolledBack = IF code >= 400 THEN req[r].dirty ELSE {}]

\* A handler may start in slot r: the slot is free, and the lower slots are
\* taken (the slots are interchangeable).
Free(r) ==
  /\ req[r].pc = "done"
  /\ calls < MaxCalls
  /\ \A o \in Slots : o < r => req[o].pc # "done"

\* Sum of the quantities of the line items of `items` that reference p.
RECURSIVE SumQty(_, _)
SumQty(items, p) ==
  IF items = <<>> THEN 0
  ELSE (IF Head(items).product = p THEN Head(items).quantity ELSE 0)
       + SumQty(Tail(items), p)

\* Total quantity of product p over the line items of the sales of a ledger.
RECURSIVE Sold(_, _)
Sold(ledger, p) ==
  IF ledger = <<>> THEN 0
  ELSE SumQty(Head(ledger).items, p) + Sold(Tail(ledger), p)

\* ------------------------------------------------------------------- Init
Init ==
  /\ products = [p \in ProductIds |->
                  [present |-> TRUE, stock |-> MaxStock * QtyDen, isActive |-> TRUE]]
  /\ sales = <<>>
  /\ year = FirstYear
  /\ req = [r \in Slots |-> IdleReq]
  /\ calls = 0
  /\ stock0 = [p \in ProductIds |-> MaxStock * QtyDen]

\* -------------------------------------------------------------- createSale
\* Line 101: !saleData.items || saleData.items.length === 0
ItemsMissing(hasItems) == ~hasItems

\* Mutant of MethodMissing: the payment method is not looked at.
MethodNeverMissing(m) == FALSE

\* Line 106: !saleData.paymentMethod
MethodMissing(m) == m = Absent

\* Lines 93-117: start the transaction, validate the body, count the sales,
\* for a caller of `users` and a body.customer of `customers`.
CreateSaleBeginBy(r, users, customers) ==
  /\ Free(r)
  /\ calls' = calls + 1
  /\ \E hasItems \in BOOLEAN, m \in CreateMethodInputs,
        user \in users, c \in customers :
       LET base == [IdleReq EXCEPT !.op = "createSale"] IN
       req' = [req EXCEPT ![r] =
         IF ItemsMissing(hasItems)
           THEN [base EXCEPT !.resp = 400, !.msg = "ValidationError",
                             !.noItems = TRUE]
         ELSE IF MethodMissing(m)
           THEN [base EXCEPT !.resp = 400, !.msg = "ValidationError"]
         ELSE [base EXCEPT !.pc = "items", !.view = products, !.method = m,
                           !.seller = user.id, !.customer = c,
                           !.saleNumber = SaleNumber(year, Len(sales))]]
  /\ UNCHANGED <<products, sales, year, stock0>>

\* createSale called by the admin, for no named customer.
CreateSaleBegin(r) == CreateSaleBeginBy(r, {User(1)}, {NoId})

\* Line 143: item.discount || product.discount || 0
Discount(itemDiscount, product) ==
  IF itemDiscount # Unset /\ itemDiscount # 0 THEN itemDiscount
  ELSE IF product.discount # 0 THEN product.discount
  ELSE 0

\* Line 144: (item.quantity * product.price) * (1 - discount / 100), in
\* 1/(QtyDen * Percent) of a currency unit.
Subtotal(quantity, product, discount) ==
  (quantity * product.price) * (Percent - discount)

\* Lines 147-155: the processed item for {product: p, quantity: q, discount: d}.
ProcessedItem(p, q, d) ==
  LET product == Catalog[p] IN
  [product |-> p, productCode |-> product.code, productName |-> product.name,
   quantity |-> q, unitPrice |-> product.price,
   discount |-> Discount(d, product),
   subtotal |-> Subtotal(q, product, Discount(d, product))]

\* Mutant of TotalAmount: the subtotal is counted twice.
TotalAmountTwice(totalAmount, subtotal) == totalAmount + subtotal + subtotal

\* Line 157: totalAmount += subtotal
TotalAmount(totalAmount, subtotal) == totalAmount + subtotal

\* Mutant of DecrementedStock: the quantity is added.
DecrementedStockSign(product, item) == product.stock + item.quantity

\* Line 160: product.stock -= item.quantity
DecrementedStock(product, item) == product.stock - item.quantity

\* product.save({ session }) for a product whose stock the handler set to
\* newStock: the transaction's own view after the write.
SaveStockInTxn(rq, p, newStock) ==
  [rq EXCEPT !.view[p].stock = newStock, !.dirty = @ \cup {p}]

\* Mutant of CreateSaleItem: product.save() without the session writes the
\* committed product at once.
CreateSaleItemNoSession(r) ==
  /\ req[r].op = "createSale" /\ req[r].pc = "items"
  /\ Len(req[r].items) < MaxItems
  /\ \E p \in ProductIds, q \in Quantities :
       LET product == req[r].view[p]
           item == ProcessedItem(p, q, Unset)
           newStock == DecrementedStock(product, item)
           rq == [req[r] EXCEPT !.items = Append(@, item),
                                !.total = TotalAmount(@, item.subtotal),
                                !.asked = Append(@, Unset)]
       IN
       IF product.present /\ product.stock >= q /\ newStock >= MinStock
         THEN /\ req' = [req EXCEPT ![r] = SaveStockInTxn(rq, p, newStock)]
              /\ products' = [products EXCEPT ![p].stock = newStock]
         ELSE /\ req' = [req EXCEPT ![r] = Finish(r, 400, "InsufficientStock")]
              /\ UNCHANGED products
  /\ UNCHANGED <<sales, year, calls, stock0>>

\* Mutant of CreateSaleItemOf: the product is read outside the session, so
\* that a line does not see the stock the earlier lines of the call took.
CreateSaleItemOfCommitted(r, quantities, discounts) ==
  /\ req[r].op = "createSale" /\ req[r].pc = "items"
  /\ Len(req[r].items) < MaxItems
  /\ \E p \in ProductIds, q \in quantities, d \in discounts :
       LET product == products[p]
           item == ProcessedItem(p, q, d)
           newStock == DecrementedStock(product, item)
           rq == [req[r] EXCEPT !.items = Append(@, item),
                                !.total = TotalAmount(@, item.subtotal),
                                !.asked = Append(@, d)]
       IN
       req' = [req EXCEPT ![r] =
         IF ~product.present THEN Finish(r, 404, "NotFound")
         ELSE IF product.stock < q THEN Finish(r, 400, "InsufficientStock")
         ELSE IF newStock = product.stock THEN rq
         ELSE IF newStock < MinStock THEN Finish(r, 500, "ValidationError")
         ELSE IF WriteConflictP(r, p) THEN Finish(r, 500, "WriteConflict")
         ELSE SaveStockInTxn(rq, p, newStock)]
  /\ UNCHANGED <<products, sales, year, calls, stock0>>

\* Lines 123-162: one iteration of the item loop, for an item
\* {product, quantity, discount} with its quantity in `quantities` and its
\* discount in `discounts`;
\* `asked` keeps the item.discount of the items processed so far.
CreateSaleItemOf(r, quantities, discounts) ==
  /\ req[r].op = "createSale" /\ req[r].pc = "items"
  /\ Len(req[r].items) < MaxItems
  /\ \E p \in ProductIds, q \in quantities, d \in discounts :
       LET product == req[r].view[p]
           item == ProcessedItem(p, q, d)
           newStock == DecrementedStock(product, item)
           rq == [req[r] EXCEPT !.items = Append(@, item),
                                !.total = TotalAmount(@, item.subtotal),
                                !.asked = Append(@, d)]
       IN
       req' = [req EXCEPT ![r] =
         IF ~product.present THEN Finish(r, 404, "NotFound")
         ELSE IF product.stock < q THEN Finish(r, 400, "InsufficientStock")
         ELSE IF newStock = product.stock THEN rq
         ELSE IF newStock < MinStock THEN Finish(r, 500, "ValidationError")
         ELSE IF WriteConflictP(r, p) THEN Finish(r, 500, "WriteConflict")
         ELSE SaveStockInTxn(rq, p, newStock)]
  /\ UNCHANGED <<products, sales, year, calls, stock0>>

\* createSale whose items name no discount of their own.
CreateSaleItem(r) == CreateSaleItemOf(r, Quantities, {Unset})

\* createSale of quantities that pass the validation of the Sale.
CreateSaleItemValid(r) == CreateSaleItemOf(r, PricedQuantities, {Unset})

\* Mutant of ValidSale: saleSchema.paymentStatus carries no enumeration.
ValidSaleAnyStatus(s) ==
  /\ \A i \in 1..Len(s.items) :
       /\ s.items[i].quantity >= MinQuantity * QtyDen
       /\ s.items[i].unitPrice >= MinUnitPrice
       /\ s.items[i].discount >= MinDiscount
       /\ s.items[i].discount <= MaxDiscount
  /\ s.paymentMethod \in PaymentMethods
  /\ s.seller # NoId

\* Mutant of ValidSale: saleItemSchema.quantity carries no minimum.
ValidSaleAnyQuantity(s) ==
  /\ \A i \in 1..Len(s.items) :
       /\ s.items[i].unitPrice >= MinUnitPrice
       /\ s.items[i].discount >= MinDiscount
       /\ s.items[i].discount <= MaxDiscount
  /\ s.paymentMethod \in PaymentMethods
  /\ s.paymentStatus \in PaymentStatuses
  /\ s.seller # NoId

\* Mongoose validation of a Sale document (sale.model.js).
ValidSale(s) ==
  /\ \A i \in 1..Len(s.items) :
       /\ s.items[i].quantity >= MinQuantity * QtyDen
       /\ s.items[i].unitPrice >= MinUnitPrice
       /\ s.items[i].discount >= MinDiscount
       /\ s.items[i].discount <= MaxDiscount
  /\ s.paymentMethod \in PaymentMethods
  /\ s.paymentStatus \in PaymentStatuses
  /\ s.seller # NoId

\* Lines 165-175: new Sale({...}) from what the handler holds in rq; the
\* timestamps plugin sets createdAt when the document is saved.
NewSale(rq) ==
  [saleNumber |-> rq.saleNumber, customer |-> rq.customer, items |-> rq.items,
   totalAmount |-> rq.total, paymentMethod |-> rq.method,
   paymentStatus |-> rq.status, seller |-> rq.seller, tax |-> rq.tax,
   createdAt |-> rq.createdAt]

\* Lines 165-177: build the Sale and insert it in the transaction, for a
\* body.paymentStatus of st and a body.tax of `taxes`.
CreateSaleSaveAs(r, taxes, st) ==
  /\ req[r].op = "createSale" /\ req[r].pc = "items"
  /\ Len(req[r].items) >= 1
  /\ \E tx \in taxes, writeError \in BOOLEAN :
       LET rq == [req[r] EXCEPT !.status = IF st = Absent THEN "pendiente" ELSE st,
                                !.tax = IF tx = Unset \/ tx = 0 THEN 0 ELSE tx,
                                !.createdAt = year]
           newSale == NewSale(rq)
       IN
       req' = [req EXCEPT ![r] =
         IF req[r].seller = NoId THEN Finish(r, 500, "TypeError")
         ELSE IF ~ValidSale(newSale) THEN Finish(r, 500, "ValidationError")
         ELSE IF writeError THEN Finish(r, 500, "StorageFailure")
         ELSE IF NumberTaken(newSale.saleNumber) THEN Finish(r, 500, "DuplicateKey")
         ELSE IF NumberPending(newSale.saleNumber, r) THEN Finish(r, 500, "WriteConflictIndex")
         ELSE [rq EXCEPT !.pc = "commit"]]
  /\ UNCHANGED <<products, sales, year, calls, stock0>>

\* Lines 165-177 for any body.paymentStatus.
CreateSaleSaveWith(r, taxes) ==
  \E st \in CreateStatusInputs : CreateSaleSaveAs(r, taxes, st)

\* createSale whose body names no tax.
CreateSaleSave(r) == CreateSaleSaveWith(r, {Unset})

\* The committed products after the transaction of r publishes its writes.
CommitProducts(r) ==
  [p \in ProductIds |-> IF p \in req[r].dirty THEN req[r].view[p] ELSE products[p]]

\* What the read-back of lines 185-187 (Sale.findById with populate, after
\* the commit) does: it finds the sale, or it throws.
ReadBacks == {"found", "failed"}

\* Lines 180-198: commitTransaction, then read the sale back and respond 201
\* with it, for a read-back of `readBacks`.  When the read-back throws, the
\* catch block calls abortTransaction on the committed session: the driver
\* rejects that call, the exception leaves the handler and no response is
\* sent, or it lets the call pass and the handler answers 500.
CreateSaleCommitWith(r, readBacks) ==
  /\ req[r].op = "createSale" /\ req[r].pc = "commit"
  /\ Len(sales) < MaxSales
  /\ products' = CommitProducts(r)
  /\ sales' = Append(sales, NewSale(req[r]))
  /\ \E readBack \in readBacks :
     \E abortThrows \in IF readBack = "found" THEN {FALSE} ELSE BOOLEAN :
       req' = [Published(req, r, req[r].dirty, {}) EXCEPT ![r] =
                 [Finish(r, 201, "") EXCEPT
                    !.saleId = Len(sales) + 1,
                    !.resp = IF readBack = "found" THEN 201
                             ELSE IF abortThrows THEN 0 ELSE 500,
                    !.msg = IF readBack = "found" THEN ""
                            ELSE IF abortThrows THEN "MongoTransactionError"
                            ELSE "ReadBackError"]]
  /\ UNCHANGED <<year, calls, stock0>>

\* createSale whose read-back finds the sale.
CreateSaleCommit(r) == CreateSaleCommitWith(r, {"found"})

\* -------------------------------------------------------------- cancelSale
\* Mutant of SaleAlreadyCancelled: cancelSale does not look at the state.
SaleNeverAlreadyCancelled(sale) == FALSE

\* Line 269: sale.paymentStatus === 'cancelado'
SaleAlreadyCancelled(sale) == sale.paymentStatus = "cancelado"

\* Mutant of RestoredStock: the stock is left as it is.
RestoredStockNone(product, item) == product.stock

\* Line 280: product.stock += item.quantity
RestoredStock(product, item) == product.stock + item.quantity

\* Lines 253-273: start the transaction, read the sale, check its state.
CancelSaleBegin(r) ==
  /\ Free(r)
  /\ calls' = calls + 1
  /\ \E id \in SaleIds :
       LET base == [IdleReq EXCEPT !.op = "cancelSale", !.saleId = id] IN
       req' = [req EXCEPT ![r] =
         IF id > Len(sales)
           THEN [base EXCEPT !.resp = 404, !.msg = "NotFound"]
         ELSE IF SaleAlreadyCancelled(sales[id])
           THEN [base EXCEPT !.resp = 400, !.msg = "InvalidState"]
         ELSE [base EXCEPT !.pc = "items", !.view = products, !.idx = 1,
                           !.items = sales[id].items,
                           !.ldStatus = sales[id].paymentStatus]]
  /\ UNCHANGED <<products, sales, year, stock0>>

\* Mutant of CancelSaleItem: a line item whose product is gone aborts the
\* cancellation.
CancelSaleItemAborting(r) ==
  /\ req[r].op = "cancelSale" /\ req[r].pc = "items"
  /\ req[r].idx <= Len(req[r].items)
  /\ LET item == req[r].items[req[r].idx]
         product == req[r].view[item.product]
         newStock == RestoredStock(product, item)
         rq == [req[r] EXCEPT !.idx = @ + 1]
     IN
     req' = [req EXCEPT ![r] =
       IF ~product.present THEN Finish(r, 404, "NotFound")
       ELSE IF newStock = product.stock THEN rq
       ELSE IF newStock < MinStock THEN Finish(r, 500, "ValidationError")
       ELSE IF WriteConflictP(r, item.product) THEN Finish(r, 500, "WriteConflict")
       ELSE SaveStockInTxn(rq, item.product, newStock)]
  /\ UNCHANGED <<products, sales, year, calls, stock0>>

\* Mutant of CancelSaleItem: the loop ends after its first iteration.
CancelSaleItemOnce(r) ==
  /\ req[r].op = "cancelSale" /\ req[r].pc = "items"
  /\ req[r].idx <= Len(req[r].items)
  /\ LET item == req[r].items[req[r].idx]
         product == req[r].view[item.product]
         newStock == RestoredStock(product, item)
         rq == [req[r] EXCEPT !.idx = Len(req[r].items) + 1]
     IN
     req' = [req EXCEPT ![r] =
       IF ~product.present THEN rq
       ELSE IF newStock = product.stock THEN rq
       ELSE IF newStock < MinStock THEN Finish(r, 500, "ValidationError")
       ELSE IF WriteConflictP(r, item.product) THEN Finish(r, 500, "WriteConflict")
       ELSE SaveStockInTxn(rq, item.product, newStock)]
  /\ UNCHANGED <<products, sales, year, calls, stock0>>

\* Lines 276-286: one iteration of the restoration loop.
CancelSaleItem(r) ==
  /\ req[r].op = "cancelSale" /\ req[r].pc = "items"
  /\ req[r].idx <= Len(req[r].items)
  /\ LET item == req[r].items[req[r].idx]
         product == req[r].view[item.product]
         newStock == RestoredStock(product, item)
         rq == [req[r] EXCEPT !.idx = @ + 1]
     IN
     req' = [req EXCEPT ![r] =
       IF ~product.present THEN rq
       ELSE IF newStock = product.stock THEN rq
       ELSE IF newStock < MinStock THEN Finish(r, 500, "ValidationError")
       ELSE IF WriteConflictP(r, item.product) THEN Finish(r, 500, "WriteConflict")
       ELSE SaveStockInTxn(rq, item.product, newStock)]
  /\ UNCHANGED <<products, sales, year, calls, stock0>>

\* Lines 289-290: mark the sale cancelled and save it in the transaction.
CancelSaleSave(r) ==
  /\ req[r].op = "cancelSale" /\ req[r].pc = "items"
  /\ req[r].idx > Len(req[r].items)
  /\ req' = [req EXCEPT ![r] =
       IF WriteConflictS(r) THEN Finish(r, 500, "WriteConflict")
       ELSE [req[r] EXCEPT !.pc = "commit", !.status = "cancelado"]]
  /\ UNCHANGED <<products, sales, year, calls, stock0>>

\* Lines 293-296: commitTransaction, then respond 200.
CancelSaleCommit(r) ==
  /\ req[r].op = "cancelSale" /\ req[r].pc = "commit"
  /\ products' = CommitProducts(r)
  /\ sales' = [sales EXCEPT ![req[r].saleId].paymentStatus = req[r].status]
  /\ req' = [Published(req, r, req[r].dirty, {req[r].saleId}) EXCEPT ![r] =
               Finish(r, 200, "")]
  /\ UNCHANGED <<year, calls, stock0>>

\* ----------------------------------------------------- updatePaymentStatus
\* Mutant of SaleIsCancelled: updatePaymentStatus does not look at the state.
SaleNeverCancelled(sale) == FALSE

\* Line 225: sale.paymentStatus === 'cancelado'
SaleIsCancelled(sale) == sale.paymentStatus = "cancelado"

\* Lines 207-228: read the body and the sale, check its state.
UpdatePaymentStatusBegin(r) ==
  /\ Free(r)
  /\ calls' = calls + 1
  /\ \E id \in SaleIds, st \in UpdateStatusInputs, m \in UpdateMethodInputs :
       LET base == [IdleReq EXCEPT !.op = "updatePaymentStatus",
                                   !.saleId = id, !.status = st] IN
       req' = [req EXCEPT ![r] =
         IF st = Absent
           THEN [base EXCEPT !.resp = 400, !.msg = "ValidationError"]
         ELSE IF id > Len(sales)
           THEN [base EXCEPT !.resp = 404, !.msg = "NotFound"]
         ELSE IF SaleIsCancelled(sales[id])
           THEN [base EXCEPT !.resp = 400, !.msg = "InvalidState"]
         ELSE [base EXCEPT !.pc = "save", !.method = m,
                           !.ldStatus = sales[id].paymentStatus,
                           !.ldMethod = sales[id].paymentMethod]]
  /\ UNCHANGED <<products, sales, year, stock0>>

\* Mutant of SaveSalePaths: a sale that becomes cancelled counts for nothing.
SaveSalePathsZeroTotal(s, rq) ==
  [s EXCEPT !.paymentStatus = IF rq.status # rq.ldStatus THEN rq.status ELSE @,
            !.paymentMethod = IF rq.method # Absent /\ rq.method # rq.ldMethod
                              THEN rq.method ELSE @,
            !.totalAmount = IF rq.status = "cancelado" THEN 0 ELSE @]

\* The Sale document after sale.save() wrote the paths the handler modified
\* (lines 231-236): mongoose sends $set for the modified paths only.
SaveSalePaths(s, rq) ==
  [s EXCEPT !.paymentStatus = IF rq.status # rq.ldStatus THEN rq.status ELSE @,
            !.paymentMethod = IF rq.method # Absent /\ rq.method # rq.ldMethod
                              THEN rq.method ELSE @]

\* Mutant of UpdatePaymentStatusSave: a change to cancelado gives the stock
\* of the sale's line items back.
UpdatePaymentStatusSaveRestoring(r) ==
  /\ req[r].op = "updatePaymentStatus" /\ req[r].pc = "save"
  /\ LET rq == req[r]
         id == rq.saleId
     IN
     /\ rq.status \in PaymentStatuses
     /\ sales' = [sales EXCEPT ![id] = SaveSalePaths(@, rq)]
     /\ products' =
          [p \in ProductIds |->
             IF rq.status = "cancelado" /\ rq.status # rq.ldStatus
             THEN [products[p] EXCEPT !.stock = @ + SumQty(sales[id].items, p)]
             ELSE products[p]]
     /\ req' = [Published(req, r, {}, {id}) EXCEPT ![r] = Finish(r, 200, "")]
  /\ UNCHANGED <<year, calls, stock0>>

\* Lines 231-241: set the fields, sale.save() outside any transaction.
UpdatePaymentStatusSave(r) ==
  /\ req[r].op = "updatePaymentStatus" /\ req[r].pc = "save"
  /\ LET rq == req[r]
         id == rq.saleId
         newMethod == IF rq.method # Absent THEN rq.method ELSE rq.ldMethod
         modified == rq.status # rq.ldStatus
                       \/ (rq.method # Absent /\ rq.method # rq.ldMethod)
     IN
     IF rq.status \notin PaymentStatuses \/ newMethod \notin PaymentMethods
       THEN /\ req' = [req EXCEPT ![r] = Finish(r, 500, "ValidationError")]
            /\ UNCHANGED sales
     ELSE IF ~modified
       THEN /\ req' = [req EXCEPT ![r] = Finish(r, 200, "")]
            /\ UNCHANGED sales
     ELSE /\ ~SaleLocked(id, r)
          /\ sales' = [sales EXCEPT ![id] = SaveSalePaths(@, rq)]
          /\ req' = [Published(req, r, {}, {id}) EXCEPT ![r] = Finish(r, 200, "")]
  /\ UNCHANGED <<products, year, calls, stock0>>

\* ------------------------------------------------------------- adjustStock
\* newStock of lines 205-221; Absent for an operation outside add/subtract/set.
NewStock(operation, stock, quantity) ==
  CASE operation = "add"      -> stock + quantity
    [] operation = "subtract" -> stock - quantity
    [] operation = "set"      -> quantity
    [] OTHER                  -> stock

\* Lines 189-221: read the body and the product, compute the new stock, for
\* a body.operation of `operations`.
AdjustStockBeginOf(r, operations) ==
  /\ Free(r)
  /\ calls' = calls + 1
  /\ \E p \in ProductIds, q \in Quantities, hasQty \in BOOLEAN,
        operation \in operations :
       LET base == [IdleReq EXCEPT !.op = "adjustStock"]
           newStock == NewStock(operation, products[p].stock, q)
       IN
       /\ newStock <= MaxStock * QtyDen
       /\ req' = [req EXCEPT ![r] =
            IF ~hasQty
              THEN [base EXCEPT !.resp = 400, !.msg = "ValidationError"]
            ELSE IF ~products[p].present
              THEN [base EXCEPT !.resp = 404, !.msg = "NotFound"]
            ELSE IF operation = "subtract" /\ newStock < 0
              THEN [base EXCEPT !.resp = 400, !.msg = "InsufficientStock"]
            ELSE IF operation \notin {"add", "subtract", "set"}
              THEN [base EXCEPT !.resp = 400, !.msg = "ValidationError"]
            ELSE [base EXCEPT !.pc = "save", !.product = p,
                              !.ldStock = products[p].stock,
                              !.newStock = newStock]]
  /\ UNCHANGED <<products, sales, year, stock0>>

\* adjustStock for any body.operation.
AdjustStockBegin(r) == AdjustStockBeginOf(r, Operations)

\* Lines 224-228: product.stock = newStock; product.save() outside any
\* transaction.
AdjustStockSave(r) ==
  /\ req[r].op = "adjustStock" /\ req[r].pc = "save"
  /\ LET rq == req[r]
         p == rq.product
     IN
     IF rq.newStock = rq.ldStock
       THEN /\ req' = [req EXCEPT ![r] = Finish(r, 200, "")]
            /\ UNCHANGED products
     ELSE IF rq.newStock < MinStock
       THEN /\ req' = [req EXCEPT ![r] = Finish(r, 500, "ValidationError")]
            /\ UNCHANGED products
     ELSE IF ~products[p].present
       THEN /\ req' = [req EXCEPT ![r] = Finish(r, 500, "DocumentNotFound")]
            /\ UNCHANGED products
     ELSE /\ ~ProductLocked(p, r)
          /\ products' = [products EXCEPT ![p].stock = rq.newStock]
          /\ req' = [Published(req, r, {p}, {}) EXCEPT ![r] = Finish(r, 200, "")]
  /\ UNCHANGED <<sales, year, calls, stock0>>

\* ----------------------------------------------------------- deleteProduct
\* Mutant of DeleteProduct: a permanent deletion also removes the line items
\* that reference the product.
DeleteProductCascade(r) ==
  /\ Free(r)
  /\ calls' = calls + 1
  /\ \E p \in ProductIds, permanent \in BOOLEAN :
       LET base == [IdleReq EXCEPT !.op = "deleteProduct"] IN
       IF ~products[p].present
         THEN /\ req' = [req EXCEPT ![r] =
                          [base EXCEPT !.resp = 404, !.msg = "NotFound"]]
              /\ UNCHANGED <<products, sales>>
       ELSE /\ ~ProductLocked(p, r)
            /\ products' = [products EXCEPT ![p] =
                              IF permanent THEN NoProduct
                              ELSE [@ EXCEPT !.isActive = FALSE]]
            /\ sales' = [i \in 1..Len(sales) |->
                           IF permanent
                           THEN [sales[i] EXCEPT !.items =
                                   SelectSeq(@, LAMBDA item : item.product # p)]
                           ELSE sales[i]]
            /\ req' = [Published(req, r, {p}, {}) EXCEPT ![r] =
                         [base EXCEPT !.resp = 200]]
  /\ UNCHANGED <<year, stock0>>

\* product.controller.js lines 153-182: delete the product, or deactivate it.
DeleteProduct(r) ==
  /\ Free(r)
  /\ calls' = calls + 1
  /\ \E p \in ProductIds, permanent \in BOOLEAN :
       LET base == [IdleReq EXCEPT !.op = "deleteProduct"] IN
       IF ~products[p].present
         THEN /\ req' = [req EXCEPT ![r] =
                          [base EXCEPT !.resp = 404, !.msg = "NotFound"]]
              /\ UNCHANGED products
       ELSE IF ~permanent /\ ~products[p].isActive
         THEN /\ req' = [req EXCEPT ![r] = [base EXCEPT !.resp = 200]]
              /\ UNCHANGED products
       ELSE /\ ~ProductLocked(p, r)
            /\ products' = [products EXCEPT ![p] =
                              IF permanent THEN NoProduct
                              ELSE [@ EXCEPT !.isActive = FALSE]]
            /\ req' = [Published(req, r, {p}, {}) EXCEPT ![r] =
                         [base EXCEPT !.resp = 200]]
  /\ UNCHANGED <<sales, year, stock0>>

\* ---------------------------------------------- getAllSales, getSalesStats
\* A MongoDB filter on the Sale collection: per path no condition, or the
\* condition the handler put there.
AnyValue    == [op |-> "any", value |-> Absent]
Equals(v)   == [op |-> "eq", value |-> v]
NotEqual(v) == [op |-> "ne", value |-> v]
Exists      == [op |-> "exists", value |-> Absent]
NoFilters ==
  [gte |-> NoDate, lte |-> NoDate, paymentStatus |-> AnyValue,
   paymentMethod |-> Absent, customer |-> NoId, seller |-> NoId]

\* The Sale document matches the filter.
Matches(sale, filters) ==
  /\ filters.gte # NoDate => sale.createdAt >= filters.gte
  /\ filters.lte # NoDate => sale.createdAt <= filters.lte
  /\ CASE filters.paymentStatus.op = "eq" ->
             sale.paymentStatus = filters.paymentStatus.value
       [] filters.paymentStatus.op = "ne" ->
             sale.paymentStatus # filters.paymentStatus.value
       [] filters.paymentStatus.op = "exists" -> sale.paymentStatus # Absent
       [] OTHER -> TRUE
  /\ filters.paymentMethod # Absent => sale.paymentMethod = filters.paymentMethod
  /\ filters.customer # NoId => sale.customer = filters.customer
  /\ filters.seller # NoId => sale.seller = filters.seller

\* Mutant of SellerScope: a seller the query names is kept.
SellerScopeUnlessRequested(filters, user) ==
  IF user # NoUser /\ user.role # "admin" /\ filters.seller = NoId
  THEN [filters EXCEPT !.seller = user.id]
  ELSE filters

\* Lines 47-49 and 329-331:
\* if (req.user && req.user.role !== 'admin') filters.seller = req.user.id
SellerScope(filters, user) ==
  IF user # NoUser /\ user.role # "admin"
  THEN [filters EXCEPT !.seller = user.id]
  ELSE filters

\* Lines 15-49: the filters of getAllSales.
GetAllSalesFilters(query, user) ==
  SellerScope(
    [gte |-> query.startDate, lte |-> query.endDate,
     paymentStatus |-> IF query.paymentStatus # Absent
                       THEN Equals(query.paymentStatus) ELSE AnyValue,
     paymentMethod |-> query.paymentMethod,
     customer |-> query.customerId,
     seller |-> query.sellerId], user)

\* Lines 317-331: the filters of getSalesStats.
GetSalesStatsFilters(query, user) ==
  SellerScope(
    [NoFilters EXCEPT !.paymentStatus = NotEqual("cancelado"),
                      !.gte = query.startDate, !.lte = query.endDate], user)

\* The positions in the ledger of the Sale documents that match the filter.
Found(ledger, filters) == {i \in 1..Len(ledger) : Matches(ledger[i], filters)}

\* { $sort: { <key>: -1 } }: the orders of the documents of S it may produce
\* (documents with equal keys come in any order).
SortedDesc(S, key) ==
  {s \in [1..Cardinality(S) -> S] :
     /\ \A i, j \in 1..Cardinality(S) : i # j => s[i] # s[j]
     /\ \A i \in 1..(Cardinality(S) - 1) : s[i][key] >= s[i + 1][key]}

\* $limit: n
Limit(s, n) == SubSeq(s, 1, IF Len(s) < n THEN Len(s) ELSE n)

\* { $sum: '$totalAmount' } over the sales at positions I.
RECURSIVE SumTotalAmount(_, _)
SumTotalAmount(ledger, I) ==
  IF I = {} THEN 0
  ELSE LET i == CHOOSE i \in I : TRUE IN
       ledger[i].totalAmount + SumTotalAmount(ledger, I \ {i})

\* { $group: { _id: '$<path>', count, total } } of the sales at positions I.
Groups(ledger, I, path) ==
  {[id |-> v,
    count |-> Cardinality({i \in I : ledger[i][path] = v}),
    total |-> SumTotalAmount(ledger, {i \in I : ledger[i][path] = v})] :
     v \in {ledger[i][path] : i \in I}}

\* $unwind: '$items' of the sales at positions I: <<sale, item>> positions.
Unwind(ledger, I) ==
  {<<i, k>> : i \in I, k \in 1..MaxItems} \cap
  {x \in (1..Len(ledger)) \X (1..MaxItems) : x[2] <= Len(ledger[x[1]].items)}

\* { $sum: '$items.<path>' } over the unwound items U.
RECURSIVE SumItems(_, _, _)
SumItems(ledger, U, path) ==
  IF U = {} THEN 0
  ELSE LET x == CHOOSE x \in U : TRUE IN
       ledger[x[1]].items[x[2]][path] + SumItems(ledger, U \ {x}, path)

\* Lines 357-366 and 401-406: the unwound items grouped by product and name.
ProductGroups(ledger, I) ==
  LET U == Unwind(ledger, I)
      Id(x) == LET item == ledger[x[1]].items[x[2]] IN
               [productId |-> item.product, productName |-> item.productName]
  IN {[productId |-> g.productId, productName |-> g.productName,
       totalQuantity |-> SumItems(ledger, {x \in U : Id(x) = g}, "quantity"),
       totalAmount |-> SumItems(ledger, {x \in U : Id(x) = g}, "subtotal")] :
        g \in {Id(x) : x \in U}}

\* Lines 372-394: the sales grouped by the day of createdAt.
DayGroups(ledger, I) ==
  {[date |-> g.id, count |-> g.count, total |-> g.total] :
     g \in Groups(ledger, I, "createdAt")}

\* Lines 333-408: the stats getSalesStats may answer for the ledger.
SalesStats(ledger, query, user) ==
  LET filters == GetSalesStatsFilters(query, user)
      I == Found(ledger, filters)
      J == Found(ledger, [filters EXCEPT !.paymentStatus = Exists])
  IN {[totalSales |-> Cardinality(I),
       totalAmount |-> SumTotalAmount(ledger, I),
       paymentMethods |-> pm,
       paymentStatus |-> Groups(ledger, J, "paymentStatus"),
       topProducts |-> Limit(tp, TopLimit),
       salesByDay |-> Limit(sd, DayLimit)] :
        pm \in SortedDesc(Groups(ledger, I, "paymentMethod"), "total"),
        tp \in SortedDesc(ProductGroups(ledger, I), "totalQuantity"),
        sd \in SortedDesc(DayGroups(ledger, I), "date")}

\* Lines 51-54: the positions of the sales getAllSales may answer, newest
\* first.
AllSales(ledger, query, user) ==
  LET found == {[id |-> i, createdAt |-> ledger[i].createdAt] :
                  i \in Found(ledger, GetAllSalesFilters(query, user))}
  IN {[k \in 1..Cardinality(found) |-> s[k].id] :
        s \in SortedDesc(found, "createdAt")}

\* Lines 10-57: getAllSales answers 200 with the sales found; the request
\* record keeps <<req.user, req.query, the answer>>.
GetAllSales(r) ==
  /\ Free(r)
  /\ calls' = calls + 1
  /\ \E user \in Callers, query \in Queries :
       \E found \in AllSales(sales, query, user) :
         req' = [req EXCEPT ![r] =
                   [IdleReq EXCEPT !.op = "getAllSales", !.resp = 200,
                                   !.answer = <<user, query, found>>]]
  /\ UNCHANGED <<products, sales, year, stock0>>

\* Lines 312-411: getSalesStats answers 200 with the stats.
GetSalesStats(r) ==
  /\ Free(r)
  /\ calls' = calls + 1
  /\ \E user \in Callers, query \in Queries :
       \E stats \in SalesStats(sales, query, user) :
         req' = [req EXCEPT ![r] =
                   [IdleReq EXCEPT !.op = "getSalesStats", !.resp = 200,
                                   !.answer = <<user, query, stats>>]]
  /\ UNCHANGED <<products, sales, year, stock0>>

\* ------------------------------------------------------------------- clock
\* new Date().getFullYear() moves on to the next calendar year.
NewYear ==
  /\ year + 1 \in Years
  /\ calls < MaxCalls
  /\ year' = year + 1
  /\ calls' = calls + 1
  /\ UNCHANGED <<products, sales, req, stock0>>

\* All the handlers that write, within one calendar year; the quantities that
\* createSale is asked for pass the validation of the Sale.
Next ==
  \/ \E r \in Slots : CreateSaleBegin(r)
  \/ \E r \in Slots : CreateSaleItemValid(r)
  \/ \E r \in Slots : CreateSaleSave(r)
  \/ \E r \in Slots : CreateSaleCommit(r)
  \/ \E r \in Slots : CancelSaleBegin(r)
  \/ \E r \in Slots : CancelSaleItem(r)
  \/ \E r \in Slots : CancelSaleSave(r)
  \/ \E r \in Slots : CancelSaleCommit(r)
  \/ \E r \in Slots : UpdatePaymentStatusBegin(r)
  \/ \E r \in Slots : UpdatePaymentStatusSave(r)
  \/ \E r \in Slots : AdjustStockBegin(r)
  \/ \E r \in Slots : AdjustStockSave(r)
  \/ \E r \in Slots : DeleteProduct(r)

Spec == Init /\ [][Next]_vars

\* createSale alone, across the turn of the year.
NextCreate ==
  \/ \E r \in Slots : CreateSaleBegin(r)
  \/ \E r \in Slots : CreateSaleItemValid(r)
  \/ \E r \in Slots : CreateSaleSave(r)
  \/ \E r \in Slots : CreateSaleCommit(r)
  \/ NewYear

SpecCreate == Init /\ [][NextCreate]_vars

\* The handlers of the sale controller that write: createSale, cancelSale
\* and updatePaymentStatus.
NextLedger ==
  \/ \E r \in Slots : CreateSaleBegin(r)
  \/ \E r \in Slots : CreateSaleItemValid(r)
  \/ \E r \in Slots : CreateSaleSave(r)
  \/ \E r \in Slots : CreateSaleCommit(r)
  \/ \E r \in Slots : CancelSaleBegin(r)
  \/ \E r \in Slots : CancelSaleItem(r)
  \/ \E r \in Slots : CancelSaleSave(r)
  \/ \E r \in Slots : CancelSaleCommit(r)
  \/ \E r \in Slots : UpdatePaymentStatusBegin(r)
  \/ \E r \in Slots : UpdatePaymentStatusSave(r)

SpecLedger == Init /\ [][NextLedger]_vars

\* createSale and cancelSale alone.
NextCancel ==
  \/ \E r \in Slots : CreateSaleBegin(r)
  \/ \E r \in Slots : CreateSaleItemValid(r)
  \/ \E r \in Slots : CreateSaleSave(r)
  \/ \E r \in Slots : CreateSaleCommit(r)
  \/ \E r \in Slots : CancelSaleBegin(r)
  \/ \E r \in Slots : CancelSaleItem(r)
  \/ \E r \in Slots : CancelSaleSave(r)
  \/ \E r \in Slots : CancelSaleCommit(r)

SpecCancel == Init /\ [][NextCancel]_vars

\* createSale of quantities that pass the validation and cancelSale, with an
\* adjustStock that adds or subtracts.
NextAdjust ==
  \/ \E r \in Slots : CreateSaleBegin(r)
  \/ \E r \in Slots : CreateSaleItemValid(r)
  \/ \E r \in Slots : CreateSaleSave(r)
  \/ \E r \in Slots : CreateSaleCommit(r)
  \/ \E r \in Slots : CancelSaleBegin(r)
  \/ \E r \in Slots : CancelSaleItem(r)
  \/ \E r \in Slots : CancelSaleSave(r)
  \/ \E r \in Slots : CancelSaleCommit(r)
  \/ \E r \in Slots : AdjustStockBeginOf(r, {"add", "subtract"})
  \/ \E r \in Slots : AdjustStockSave(r)

SpecAdjust == Init /\ [][NextAdjust]_vars

\* createSale of quantities that pass the validation, with a read-back that
\* may throw.
NextReadBack ==
  \/ \E r \in Slots : CreateSaleBegin(r)
  \/ \E r \in Slots : CreateSaleItemValid(r)
  \/ \E r \in Slots : CreateSaleSave(r)
  \/ \E r \in Slots : CreateSaleCommitWith(r, ReadBacks)

SpecReadBack == Init /\ [][NextReadBack]_vars

\* PricingCalls calls are left of the MaxCalls.
InitPricing ==
  /\ products = [p \in ProductIds |->
                  [present |-> TRUE, stock |-> MaxStock * QtyDen, isActive |-> TRUE]]
  /\ sales = <<>>
  /\ year = FirstYear
  /\ req = [r \in Slots |-> IdleReq]
  /\ calls = MaxCalls - PricingCalls
  /\ stock0 = [p \in ProductIds |-> MaxStock * QtyDen]

\* createSale by any caller, for any customer, discount and tax, of
\* quantities that pass the validation, with cancelSale and
\* updatePaymentStatus.
NextPricing ==
  \/ \E r \in Slots : CreateSaleBeginBy(r, Callers, CustomerInputs)
  \/ \E r \in Slots : CreateSaleItemOf(r, PricedQuantities, DiscountInputs)
  \/ \E r \in Slots : CreateSaleSaveWith(r, TaxInputs)
  \/ \E r \in Slots : CreateSaleCommit(r)
  \/ \E r \in Slots : CancelSaleBegin(r)
  \/ \E r \in Slots : CancelSaleItem(r)
  \/ \E r \in Slots : CancelSaleSave(r)
  \/ \E r \in Slots : CancelSaleCommit(r)
  \/ \E r \in Slots : UpdatePaymentStatusBegin(r)
  \/ \E r \in Slots : UpdatePaymentStatusSave(r)

SpecPricing == InitPricing /\ [][NextPricing]_vars

\* createSale of any quantity, those that the Sale's validation rejects
\* included.
NextReject ==
  \/ \E r \in Slots : CreateSaleBegin(r)
  \/ \E r \in Slots : CreateSaleItem(r)
  \/ \E r \in Slots : CreateSaleSave(r)
  \/ \E r \in Slots : CreateSaleCommit(r)

SpecReject == InitPricing /\ [][NextReject]_vars

\* totalAmount of lines 120 and 157 for the processed items.
RECURSIVE TotalOf(_)
TotalOf(items) ==
  IF items = <<>> THEN 0
  ELSE TotalAmount(TotalOf(SubSeq(items, 1, Len(items) - 1)),
                   items[Len(items)].subtotal)

\* What varies between the sales of a ledger that getAllSales and
\* getSalesStats read.
SaleTraits ==
  [seller : UserIds, customer : CustomerInputs, year : Years,
   method : {"efectivo", "tarjeta_credito"},
   status : {"completado", "cancelado"}]

\* The i-th Sale of such a ledger, as createSale builds it: one unit of a
\* product, and in every second sale one unit of the first product too.
LedgerSale(i, t) ==
  LET first == <<ProcessedItem(1 + ((i - 1) % NumProducts), QtyDen, Unset)>>
      items == IF i % 2 = 0 THEN Append(first, ProcessedItem(1, QtyDen, Unset))
               ELSE first
  IN NewSale([IdleReq EXCEPT !.saleNumber = SaleNumber(t.year, i - 1),
                             !.customer = t.customer, !.items = items,
                             !.total = TotalOf(items), !.method = t.method,
                             !.status = t.status, !.seller = t.seller,
                             !.createdAt = t.year])

\* The ledgers of up to MaxSales such sales, in the order of their creation.
Ledgers ==
  UNION {{[i \in 1..n |-> LedgerSale(i, f[i])] :
            f \in {g \in [1..n -> SaleTraits] :
                     \A i \in 1..(n - 1) : g[i].year <= g[i + 1].year}} :
         n \in 0..MaxSales}

\* A store that earlier createSale and updatePaymentStatus calls have
\* filled, in the last year of the clock, with one call left.
InitStats ==
  /\ sales \in Ledgers
  /\ products = [p \in ProductIds |->
                  [present |-> TRUE, stock |-> MaxStock * QtyDen - Sold(sales, p),
                   isActive |-> TRUE]]
  /\ year = FirstYear + NumYears - 1
  /\ req = [r \in Slots |-> IdleReq]
  /\ calls = MaxCalls - 1
  /\ stock0 = [p \in ProductIds |-> MaxStock * QtyDen]

\* The handlers of the sale controller that read.
NextStats ==
  \/ \E r \in Slots : GetAllSales(r)
  \/ \E r \in Slots : GetSalesStats(r)

SpecStats == InitStats /\ [][NextStats]_vars

\* A store that earlier createSale and updatePaymentStatus calls have
\* filled, with RemovalCalls calls left.
InitRemoved ==
  /\ sales \in Ledgers
  /\ products = [p \in ProductIds |->
                  [present |-> TRUE, stock |-> MaxStock * QtyDen - Sold(sales, p),
                   isActive |-> TRUE]]
  /\ year = FirstYear + NumYears - 1
  /\ req = [r \in Slots |-> IdleReq]
  /\ calls = MaxCalls - RemovalCalls
  /\ stock0 = [p \in ProductIds |-> MaxStock * QtyDen]

\* cancelSale and deleteProduct on such a store.
NextRemoved ==
  \/ \E r \in Slots : CancelSaleBegin(r)
  \/ \E r \in Slots : CancelSaleItem(r)
  \/ \E r \in Slots : CancelSaleSave(r)
  \/ \E r \in Slots : CancelSaleCommit(r)
  \/ \E r \in Slots : DeleteProduct(r)

SpecRemoved == InitRemoved /\ [][NextRemoved]_vars

\* ================================================================== claims
\* A handler starts in slot r in this step (the step is a call, and not the
\* turn of the year).
Started(r) == Free(r) /\ calls' = calls + 1 /\ year' = year

\* Handler r itself takes this step (a step of another handler changes at
\* most r's record of the documents that are behind its snapshot).
OwnStep(r) ==
  req'[r] # [req[r] EXCEPT !.staleP = req'[r].staleP,
                           !.staleSale = req'[r].staleSale]

\* parseInt of a string of decimal digits.
RECURSIVE ParseInt(_)
ParseInt(s) ==
  IF s = <<>> THEN 0
  ELSE 10 * ParseInt(SubSeq(s, 1, Len(s) - 1)) + s[Len(s)]

\* C1: every step a createSale handler takes after it started processing
\* items, other than the commit that ends in 201, leaves the committed
\* products and the ledger as they are: a call that fails (missing product,
\* insufficient stock, validation or write error at the Sale save, write
\* conflict) has changed no stock and created no Sale.
C1_RollbackComplete ==
  [][\A r \in Slots :
       (/\ req[r].op = "createSale"
        /\ req[r].pc \in {"items", "commit"}
        /\ OwnStep(r)
        /\ ~(req'[r].pc = "done" /\ req'[r].resp = 201))
       => (products' = products /\ sales' = sales)]_vars

\* A createSale has failed after it had decremented stock in its transaction.
C1_Witness ==
  \E r \in Slots :
    /\ req[r].op = "createSale" /\ req[r].pc = "done"
    /\ req[r].msg \in {"NotFound", "InsufficientStock", "ValidationError", "StorageFailure"}
    /\ req[r].rolledBack # {}

\* C2: the step in which a createSale succeeds decreases every product's
\* stock by exactly the sum of the quantities of the call's line items that
\* reference it (by nothing when none does), and leaves no stock negative.
C2_StockDecrement ==
  [][\A r \in Slots :
       (/\ req[r].op = "createSale" /\ req[r].pc = "commit"
        /\ req'[r].pc = "done" /\ req'[r].resp = 201)
       => \A p \in ProductIds :
            /\ products'[p].present = products[p].present
            /\ products'[p].stock = products[p].stock - SumQty(req[r].items, p)
            /\ products'[p].stock >= 0]_vars

\* A createSale has succeeded with two line items of one product, the other
\* product not referenced.
C2_Witness ==
  \E r \in Slots :
    /\ req[r].op = "createSale" /\ req[r].resp = 201
    /\ req[r].saleId \in 1..Len(sales)
    /\ LET items == sales[req[r].saleId].items IN
       /\ Len(items) = 2
       /\ items[1].product = items[2].product

\* C3: every product's stock is an integer greater than or equal to 0.
C3_StockNonNegInteger ==
  \A p \in ProductIds :
    products[p].present =>
      /\ products[p].stock >= 0
      /\ products[p].stock % QtyDen = 0

\* C4: with createSale calls alone, concurrent or not, what the successful
\* calls sold of a product never exceeds the stock it had before them, and no
\* decrement is lost: the stock left is the initial stock less what was sold.
C4_NoOversell ==
  \A p \in ProductIds :
    /\ Sold(sales, p) <= stock0[p]
    /\ products[p].stock = stock0[p] - Sold(sales, p)

\* A createSale was refused with a write conflict on a product that another
\* createSale sold.
C4_Witness ==
  \E r \in Slots :
    /\ req[r].op = "createSale" /\ req[r].msg = "WriteConflict"
    /\ \E p \in ProductIds : Sold(sales, p) > 0

\* C5: no two Sale records have the same sale number.
C5_UniqueSaleNumbers ==
  \A i, j \in 1..Len(sales) :
    i # j => sales[i].saleNumber # sales[j].saleNumber

\* Two createSale calls counted the same number of sales: one is in the
\* ledger, the other was refused on the unique index.
C5_Witness ==
  /\ Len(sales) >= 1
  /\ \E r \in Slots :
       /\ req[r].op = "createSale"
       /\ req[r].msg \in {"DuplicateKey", "WriteConflictIndex"}

C7_CancelRestores ==
  [][\A r \in Slots :
       (req[r].op = "cancelSale" /\ req[r].pc \in {"items", "commit"} /\ OwnStep(r))
       => /\ req'[r].pc = "done"
               => (req'[r].resp = 200 \/ req'[r].msg = "WriteConflict")
          /\ IF req'[r].pc = "done" /\ req'[r].resp = 200
             THEN LET id == req[r].saleId IN
                  /\ sales[id].paymentStatus # "cancelado"
                  /\ sales' = [sales EXCEPT ![id].paymentStatus = "cancelado"]
                  /\ \A p \in ProductIds :
                       /\ products'[p].present = products[p].present
                       /\ products[p].present =>
                            products'[p].stock
                              = products[p].stock + SumQty(sales[id].items, p)
             ELSE products' = products /\ sales' = sales]_vars

\* A cancelSale has succeeded on a sale that sold something.
C7_Witness ==
  \E r \in Slots :
    /\ req[r].op = "cancelSale" /\ req[r].resp = 200
    /\ sales[req[r].saleId].paymentStatus = "cancelado"
    /\ \E p \in ProductIds :
         products[p].present /\ SumQty(sales[req[r].saleId].items, p) > 0

\* C8: a cancelSale called on a sale whose status is cancelado answers 400
\* (the sale is already cancelled) in its first step and changes neither a
\* product nor a Sale.
C8_SecondCancelRejected ==
  [][\A r \in Slots :
       (/\ Started(r) /\ req'[r].op = "cancelSale"
        /\ req'[r].saleId \in 1..Len(sales)
        /\ sales[req'[r].saleId].paymentStatus = "cancelado")
       => /\ req'[r].pc = "done"
          /\ req'[r].resp = 400 /\ req'[r].msg = "InvalidState"
          /\ products' = products /\ sales' = sales]_vars

\* A cancelSale was rejected because the sale is cancelled.
C8_Witness ==
  \E r \in Slots :
    /\ req[r].op = "cancelSale" /\ req[r].msg = "InvalidState"
    /\ sales[req[r].saleId].paymentStatus = "cancelado"

\* C9: once a sale's payment status is cancelado, no step changes its
\* payment status or its payment method.
C9_CancellationTerminal ==
  [][\A id \in 1..Len(sales) :
       sales[id].paymentStatus = "cancelado"
       => /\ sales'[id].paymentStatus = "cancelado"
          /\ sales'[id].paymentMethod = sales[id].paymentMethod]_vars

\* C10: an updatePaymentStatus that names a status and is called on a sale
\* whose status is cancelado answers 400 (a cancelled sale cannot be modified)
\* in its first step, and the ledger is unchanged.
C10_UpdateOfCancelledRejected ==
  [][\A r \in Slots :
       (/\ Started(r) /\ req'[r].op = "updatePaymentStatus"
        /\ req'[r].status # Absent
        /\ req'[r].saleId \in 1..Len(sales)
        /\ sales[req'[r].saleId].paymentStatus = "cancelado")
       => /\ req'[r].pc = "done"
          /\ req'[r].resp = 400 /\ req'[r].msg = "InvalidState"
          /\ sales' = sales]_vars

\* An updatePaymentStatus was rejected because the sale is cancelled.
C10_Witness ==
  \E r \in Slots :
    /\ req[r].op = "updatePaymentStatus" /\ req[r].msg = "InvalidState"
    /\ req[r].status \in PaymentStatuses \ {"cancelado"}
    /\ sales[req[r].saleId].paymentStatus = "cancelado"

\* C11: no step of an updatePaymentStatus handler changes a product, whatever
\* the sale's status and the status requested, the change to cancelado
\* included.
C11_UpdateLeavesStock ==
  [][\A r \in Slots :
       (\/ Started(r) /\ req'[r].op = "updatePaymentStatus"
        \/ req[r].op = "updatePaymentStatus" /\ req[r].pc = "save" /\ OwnStep(r))
       => products' = products]_vars

\* An updatePaymentStatus has answered 200 on a sale that is now cancelled
\* and whose stock has not come back.
C11_Witness ==
  \E r \in Slots :
    /\ req[r].op = "updatePaymentStatus" /\ req[r].resp = 200
    /\ sales[req[r].saleId].paymentStatus = "cancelado"
    /\ \E p \in ProductIds :
         /\ SumQty(sales[req[r].saleId].items, p) > 0
         /\ products[p].stock = stock0[p] - Sold(sales, p)

\* The sales of a ledger whose payment status is not cancelado.
NonCancelled(ledger) ==
  SelectSeq(ledger, LAMBDA sale : sale.paymentStatus # "cancelado")

\* C12: the stats getSalesStats answers (sale count, total amount, groups per
\* payment method, groups per payment status, top products, sales by day) are
\* stats of the ledger without its cancelled sales: no cancelled sale
\* contributes to any of them.
C12_CancelledNeverCounted ==
  \A r \in Slots :
    req[r].op = "getSalesStats"
    => req[r].answer[3]
         \in SalesStats(NonCancelled(sales), req[r].answer[2], req[r].answer[1])

\* C13: with createSale, cancelSale and updatePaymentStatus alone, for every
\* product the initial stock is the current stock plus the quantities of the
\* product's line items over the sales whose payment status is not cancelado.
C13_InventoryMatchesLedger ==
  \A p \in ProductIds :
    stock0[p] = products[p].stock + Sold(NonCancelled(sales), p)

\* C14: a createSale whose item list is missing or empty, or that names no
\* payment method, answers 400 with a validation error in its first step,
\* before it has counted the sales or read a product, and changes no product
\* and no Sale.
C14_ValidationBeforeAccess ==
  [][\A r \in Slots :
       (/\ Started(r) /\ req'[r].op = "createSale"
        /\ (req'[r].noItems \/ req'[r].method = Absent))
       => /\ req'[r].pc = "done"
          /\ req'[r].resp = 400 /\ req'[r].msg = "ValidationError"
          /\ req'[r].view = NoView /\ req'[r].saleNumber = NoNumber
          /\ req'[r].rolledBack = {}
          /\ products' = products /\ sales' = sales]_vars

\* With a sale in the ledger, a createSale that has items but no payment
\* method was rejected, and so was one without items.
C14_Witness ==
  /\ Len(sales) >= 1
  /\ \E r, o \in Slots :
       /\ req[r].op = "createSale" /\ req[r].msg = "ValidationError"
       /\ req[r].resp = 400 /\ ~req[r].noItems
       /\ req[o].op = "createSale" /\ req[o].msg = "ValidationError"
       /\ req[o].resp = 400 /\ req[o].noItems

\* C15: with createSale and cancelSale alone, the commit of a cancelSale of
\* the only sale of the ledger (nothing but the createSale that made it has
\* changed a stock, and every product is still there) returns every product's
\* stock to the value it had before that createSale.
C15_CreateThenCancelRestores ==
  [][\A r \in Slots :
       (/\ req[r].op = "cancelSale" /\ req[r].pc = "commit"
        /\ req'[r].pc = "done" /\ req'[r].resp = 200
        /\ Len(sales) = 1)
       => \A p \in ProductIds :
            /\ products[p].stock = stock0[p] - SumQty(sales[1].items, p)
            /\ products'[p].present
            /\ products'[p].stock = stock0[p]]_vars

\* A cancelSale has succeeded on the only sale of the ledger, a sale of two
\* line items that took stock, and the stock is what it was at first.
C15_Witness ==
  /\ Len(sales) = 1
  /\ Len(sales[1].items) = 2
  /\ \E p \in ProductIds : SumQty(sales[1].items, p) > QtyDen
  /\ \E r \in Slots :
       req[r].op = "cancelSale" /\ req[r].resp = 200 /\ req[r].saleId = 1
  /\ \A p \in ProductIds : products[p].stock = stock0[p]

\* The sum of the subtotals of line items.
RECURSIVE SumSubtotals(_)
SumSubtotals(items) ==
  IF items = <<>> THEN 0
  ELSE Head(items).subtotal + SumSubtotals(Tail(items))

\* C16: in every state, the totalAmount of every Sale of the ledger is the
\* sum of the subtotals of its line items (the tax is not added to it).
C16_TotalIsSumOfSubtotals ==
  \A i \in 1..Len(sales) :
    sales[i].totalAmount = SumSubtotals(sales[i].items)

\* A sale of two line items with different discounts and with a tax, whose
\* payment status a later updatePaymentStatus has changed.
C16_Witness ==
  \E i \in 1..Len(sales) :
    /\ Len(sales[i].items) = 2
    /\ sales[i].items[1].discount # sales[i].items[2].discount
    /\ sales[i].tax > 0
    /\ sales[i].paymentStatus = "completado"
    /\ \E r \in Slots :
         /\ req[r].op = "updatePaymentStatus" /\ req[r].resp = 200
         /\ req[r].saleId = i

\* C17: no step changes the sale number, the line items (product, code,
\* name, quantity, unit price, discount, subtotal) or the totalAmount of a
\* Sale of the ledger: cancelSale and updatePaymentStatus write the payment
\* status and the payment method only.
C17_SaleContentImmutable ==
  [][\A id \in 1..Len(sales) :
       /\ sales'[id].saleNumber = sales[id].saleNumber
       /\ sales'[id].items = sales[id].items
       /\ sales'[id].totalAmount = sales[id].totalAmount]_vars

\* An updatePaymentStatus has changed the payment status and the payment
\* method of a sale, and a cancelSale has then cancelled it.
C17_Witness ==
  \E r, o \in Slots :
    /\ req[r].op = "updatePaymentStatus" /\ req[r].resp = 200
    /\ req[o].op = "cancelSale" /\ req[o].resp = 200
    /\ req[o].saleId = req[r].saleId
    /\ sales[req[r].saleId].paymentMethod = "tarjeta_credito"
    /\ sales[req[r].saleId].paymentStatus = "cancelado"

\* The sales of a ledger whose seller is the user.
SoldBy(ledger, user) == SelectSeq(ledger, LAMBDA sale : sale.seller = user.id)

\* C18: for a caller with a role other than admin, whatever the query asks
\* for (a sellerId included), every sale getAllSales answers has the caller
\* as its seller, and the stats getSalesStats answers are stats of the
\* caller's own sales alone.
C18_NonAdminSeesOwnSales ==
  \A r \in Slots :
    /\ req[r].op = "getAllSales"
        => (req[r].answer[1].role \notin {Absent, "admin"}
            => \A k \in 1..Len(req[r].answer[3]) :
                 sales[req[r].answer[3][k]].seller = req[r].answer[1].id)
    /\ req[r].op = "getSalesStats"
        => (req[r].answer[1].role \notin {Absent, "admin"}
            => req[r].answer[3]
                 \in SalesStats(SoldBy(sales, req[r].answer[1]),
                                req[r].answer[2], req[r].answer[1]))

\* An employee has asked getAllSales for the sales of another seller, who
\* has a sale in the ledger, and was answered a sale of their own.
C18_Witness ==
  \E r \in Slots :
    /\ req[r].op = "getAllSales"
    /\ req[r].answer[1].role = "employee"
    /\ req[r].answer[2].sellerId # NoId
    /\ req[r].answer[2].sellerId # req[r].answer[1].id
    /\ \E i \in 1..Len(sales) : sales[i].seller = req[r].answer[2].sellerId
    /\ Len(req[r].answer[3]) >= 1

\* The sale satisfies every parameter the query supplies.
Honours(sale, query) ==
  /\ query.startDate # NoDate => sale.createdAt >= query.startDate
  /\ query.endDate # NoDate => sale.createdAt <= query.endDate
  /\ query.paymentStatus # Absent => sale.paymentStatus = query.paymentStatus
  /\ query.paymentMethod # Absent => sale.paymentMethod = query.paymentMethod
  /\ query.customerId # NoId => sale.customer = query.customerId
  /\ query.sellerId # NoId => sale.seller = query.sellerId

\* C19: the stats getSalesStats answers for a query are the stats, for the
\* empty query, of the sales that satisfy all of the startDate, endDate,
\* paymentStatus, paymentMethod, customerId and sellerId the query supplies.
C19_StatsHonourEveryParameter ==
  \A r \in Slots :
    req[r].op = "getSalesStats"
    => req[r].answer[3]
         \in SalesStats(SelectSeq(sales, LAMBDA sale : Honours(sale, req[r].answer[2])),
                        NoQuery, req[r].answer[1])

\* C20: the step of a deleteProduct, permanent or deactivating, leaves every
\* Sale of the ledger as it is, the line items that reference the product
\* and their code, name and price snapshots included.
C20_DeleteLeavesSales ==
  [][\A r \in Slots :
       (Started(r) /\ req'[r].op = "deleteProduct") => sales' = sales]_vars

\* A deleteProduct has succeeded, and a line item of the ledger references a
\* product that is no longer there and still carries its code, name and
\* price.
C20_Witness ==
  /\ \E r \in Slots : req[r].op = "deleteProduct" /\ req[r].resp = 200
  /\ \E i \in 1..Len(sales) : \E k \in 1..Len(sales[i].items) :
       LET item == sales[i].items[k] IN
       /\ ~products[item.product].present
       /\ item.productCode = Catalog[item.product].code
       /\ item.productName = Catalog[item.product].name
       /\ item.unitPrice = Catalog[item.product].price

\* C21: while a createSale whose payment method is outside
\* saleSchema.paymentMethod.enum is running, it has written no product's
\* stock: the method is refused before any write.
C21_MethodCheckedBeforeWrite ==
  \A r \in Slots :
    (/\ req[r].op = "createSale" /\ req[r].pc # "done"
     /\ req[r].method \notin PaymentMethods)
    => req[r].dirty = {}

\* C22: a cancelSale that comes to a line item whose product is no longer
\* there goes on to the next line item without a write and without an answer;
\* the commit of a cancelSale whose sale references a product that is gone
\* answers 200, sets the sale's status to cancelado, adds to the stock of
\* every product that is there the quantities of the line items that
\* reference it, and leaves the product that is gone as it is.
C22_CancelSkipsMissingProduct ==
  [][\A r \in Slots :
       (req[r].op = "cancelSale" /\ OwnStep(r))
       => /\ (/\ req[r].pc = "items" /\ req[r].idx <= Len(req[r].items)
              /\ ~req[r].view[req[r].items[req[r].idx].product].present)
             => /\ req'[r].pc = "items" /\ req'[r].idx = req[r].idx + 1
                /\ req'[r].dirty = req[r].dirty /\ req'[r].view = req[r].view
                /\ products' = products /\ sales' = sales
          /\ (/\ req[r].pc = "commit"
              /\ \E k \in 1..Len(req[r].items) :
                   ~products[req[r].items[k].product].present)
             => /\ req'[r].pc = "done" /\ req'[r].resp = 200
                /\ sales' = [sales EXCEPT ![req[r].saleId].paymentStatus = "cancelado"]
                /\ \A p \in ProductIds :
                     IF products[p].present
                     THEN /\ products'[p].present
                          /\ products'[p].stock
                               = products[p].stock + SumQty(req[r].items, p)
                     ELSE products'[p] = products[p]]_vars

\* A cancelSale has succeeded on a sale of two line items: the product of one
\* is gone, and the stock of the other's product has its quantity back.
C22_Witness ==
  \E r \in Slots :
    /\ req[r].op = "cancelSale" /\ req[r].resp = 200
    /\ sales[req[r].saleId].paymentStatus = "cancelado"
    /\ \E k, l \in 1..Len(sales[req[r].saleId].items) :
         LET gone == sales[req[r].saleId].items[k].product
             kept == sales[req[r].saleId].items[l].product
         IN /\ ~products[gone].present
            /\ products[kept].present
            /\ products[kept].stock
                 = stock0[kept] - Sold(sales, kept) + SumQty(sales[req[r].saleId].items, kept)

\* The discount of a line item of product p whose request names the discount
\* d: d when the item supplies one (0 included), else the product's
\* configured discount, else 0.
EffectiveDiscount(d, p) ==
  IF d # Unset THEN d
  ELSE IF Catalog[p].discount # Unset THEN Catalog[p].discount
  ELSE 0

\* C23: for every line item a createSale has processed, the discount it
\* recorded is the item's own discount whenever the item supplies one (a 0 on
\* a product with a shelf discount included), otherwise the product's
\* discount, otherwise 0, and the subtotal is computed with that discount.
C23_ItemDiscountOverrides ==
  \A r \in Slots :
    (req[r].op = "createSale" /\ req[r].pc # "done")
    => \A k \in 1..Len(req[r].items) :
         LET item == req[r].items[k]
             discount == EffectiveDiscount(req[r].asked[k], item.product)
         IN /\ item.discount = discount
            /\ item.subtotal = Subtotal(item.quantity, Catalog[item.product], discount)

\* C24: a createSale counts the sales once and inserts once, so the first
\* time its insert finds the sale number taken (in the unique index, or by
\* an uncommitted insert) is the only time; that step does not end the call
\* with the storage failure: the call goes on to count again.
C24_ConflictIsRetried ==
  [][\A r \in Slots :
       (/\ req[r].op = "createSale" /\ req[r].pc = "items" /\ OwnStep(r)
        /\ \/ NumberTaken(req[r].saleNumber)
           \/ NumberPending(req[r].saleNumber, r))
       => ~(/\ req'[r].pc = "done"
            /\ req'[r].msg \in {"DuplicateKey", "WriteConflictIndex"})]_vars

\* C25: after every step, every line item of every Sale of the ledger has a
\* quantity of at least 1; and every step of a createSale that has processed
\* an item with a quantity of 0 or less leaves the committed products and the
\* ledger as they are and does not bring the call to its commit (a negative
\* quantity raises the stock in the call's own transaction only).
C25_QuantityAtLeastOne ==
  [][/\ \A i \in 1..Len(sales') : \A k \in 1..Len(sales'[i].items) :
          sales'[i].items[k].quantity >= MinQuantity * QtyDen
     /\ \A r \in Slots :
          (/\ req[r].op = "createSale" /\ req[r].pc # "done" /\ OwnStep(r)
           /\ \E k \in 1..Len(req[r].items) : req[r].items[k].quantity <= 0)
          => /\ products' = products /\ sales' = sales
             /\ req'[r].pc # "commit"]_vars

\* With a sale in the ledger, a createSale has processed an item with a
\* negative quantity: in its transaction the product's stock is above the
\* committed stock.
C25_Witness ==
  /\ Len(sales) >= 1
  /\ \E r \in Slots :
       /\ req[r].op = "createSale" /\ req[r].pc = "items"
       /\ \E k \in 1..Len(req[r].items) :
            /\ req[r].items[k].quantity < 0
            /\ req[r].view[req[r].items[k].product].stock
                 > products[req[r].items[k].product].stock

\* C26: after every step every Sale of the ledger has a payment status of
\* the enumeration.  A createSale whose body names no payment status and
\* whose insert goes through holds pendiente, and its commit stores the
\* status it holds.  A createSale whose body names a status outside the
\* enumeration ends at the insert with an error and leaves the products and
\* the ledger as they are; an updatePaymentStatus that names such a status
\* ends at its save with an error and leaves the ledger as it is.
C26_PaymentStatusEnumerated ==
  [][/\ \A i \in 1..Len(sales') : sales'[i].paymentStatus \in PaymentStatuses
     /\ \A r \in Slots :
          /\ (/\ req[r].pc = "items" /\ req'[r].pc = "commit"
              /\ CreateSaleSaveAs(r, {Unset}, Absent))
             => req'[r].status = "pendiente"
          /\ (/\ req[r].op = "createSale" /\ req[r].pc = "commit"
              /\ req'[r].pc = "done" /\ req'[r].resp = 201)
             => /\ Len(sales') = Len(sales) + 1
                /\ sales'[Len(sales')].paymentStatus = req[r].status
          /\ \A st \in CreateStatusInputs \ (PaymentStatuses \cup {Absent}) :
               (OwnStep(r) /\ CreateSaleSaveAs(r, {Unset}, st))
               => /\ req'[r].pc = "done" /\ req'[r].resp >= 400
                  /\ products' = products /\ sales' = sales
          /\ (/\ req[r].op = "updatePaymentStatus" /\ req[r].pc = "save"
              /\ OwnStep(r) /\ req[r].status \notin PaymentStatuses)
             => /\ req'[r].pc = "done" /\ req'[r].resp >= 400
                /\ sales' = sales]_vars

\* A createSale that named no payment status has stored a sale that is
\* pendiente; a createSale has since failed at its insert after it had
\* written stock, and an updatePaymentStatus on the sale has failed the
\* validation of its save.
C26_Witness ==
  /\ Len(sales) = 1
  /\ sales[1].paymentStatus = "pendiente"
  /\ \E r, o \in Slots :
       /\ req[r].op = "updatePaymentStatus" /\ req[r].saleId = 1
       /\ req[r].resp = 500 /\ req[r].msg = "ValidationError"
       /\ req[o].op = "createSale" /\ req[o].resp = 500
       /\ req[o].msg = "ValidationError" /\ req[o].rolledBack # {}

\* C27: a createSale accepts a line item only if its quantity is at most the
\* stock its transaction holds for the product, which the line then lowers by
\* that quantity, so that the next line of the same product is checked
\* against what is left; the call commits only if the product's stock is at
\* least the sum of the quantities of its lines, and the commit takes that
\* sum; a step that ends the call otherwise leaves the products and the
\* ledger as they are.
C27_LinesShareTheStock ==
  [][\A r \in Slots :
       (req[r].op = "createSale" /\ OwnStep(r))
       => /\ (/\ req[r].pc = "items" /\ req'[r].pc = "items"
              /\ Len(req'[r].items) = Len(req[r].items) + 1)
             => LET item == req'[r].items[Len(req'[r].items)] IN
                /\ item.quantity <= req[r].view[item.product].stock
                /\ req'[r].view[item.product].stock
                     = req[r].view[item.product].stock - item.quantity
          /\ (req[r].pc = "commit" /\ req'[r].pc = "done" /\ req'[r].resp = 201)
             => \A p \in ProductIds :
                  /\ products[p].stock >= SumQty(req[r].items, p)
                  /\ products'[p].stock = products[p].stock - SumQty(req[r].items, p)
          /\ (req'[r].pc = "done" /\ req'[r].resp # 201)
             => products' = products /\ sales' = sales]_vars

\* A createSale of two lines of one product that together took all of its
\* stock has succeeded, and a createSale has been refused for insufficient
\* stock at a later line, after an earlier line had taken stock.
C27_Witness ==
  /\ Len(sales) = 1
  /\ Len(sales[1].items) = 2
  /\ LET p == sales[1].items[1].product IN
     /\ sales[1].items[2].product = p
     /\ SumQty(sales[1].items, p) = stock0[p]
     /\ products[p].stock = 0
  /\ \E r \in Slots :
       /\ req[r].op = "createSale" /\ req[r].msg = "InsufficientStock"
       /\ req[r].rolledBack # {}

\* C28: of two cancelSale handlers on one sale, never both have inserted
\* their change, never both have answered 200, and never one has answered
\* 200 while the other is about to commit; the commit of a cancelSale finds
\* the sale not cancelled, cancels it for good, and adds to the stock of
\* every product that is there exactly the quantities of the line items that
\* reference it; no other step of a cancelSale changes a stock or a sale.
C28_ConcurrentCancelOnce ==
  [][/\ \A r, o \in Slots :
          (/\ r # o
           /\ req'[r].op = "cancelSale" /\ req'[o].op = "cancelSale"
           /\ req'[r].saleId = req'[o].saleId)
          => /\ ~(req'[r].pc = "commit" /\ req'[o].pc = "commit")
             /\ ~(req'[r].resp = 200 /\ req'[o].resp = 200)
             /\ ~(req'[r].resp = 200 /\ req'[o].pc = "commit")
     /\ \A id \in 1..Len(sales) :
          sales[id].paymentStatus = "cancelado" => sales'[id] = sales[id]
     /\ \A r \in Slots :
          (req[r].op = "cancelSale" /\ req[r].pc # "done" /\ OwnStep(r))
          => IF req[r].pc = "commit"
             THEN /\ req'[r].pc = "done" /\ req'[r].resp = 200
                  /\ sales[req[r].saleId].paymentStatus # "cancelado"
                  /\ sales'[req[r].saleId].paymentStatus = "cancelado"
                  /\ \A p \in ProductIds :
                       products'[p].stock
                         = IF products[p].present
                           THEN products[p].stock
                                  + SumQty(sales[req[r].saleId].items, p)
                           ELSE products[p].stock
             ELSE products' = products /\ sales' = sales]_vars

\* Two cancelSale calls ran on one sale at once: one has answered 200, the
\* other was refused with a write conflict, and the stock of a product of
\* the sale has the sale's quantity back once.
C28_Witness ==
  \E r, o \in Slots :
    /\ req[r].op = "cancelSale" /\ req[r].resp = 200
    /\ req[o].op = "cancelSale" /\ req[o].msg = "WriteConflict"
    /\ req[o].saleId = req[r].saleId
    /\ sales[req[r].saleId].paymentStatus = "cancelado"
    /\ \E p \in ProductIds :
         /\ products[p].present
         /\ SumQty(sales[req[r].saleId].items, p) > 0
         /\ products[p].stock
              = stock0[p] - Sold(sales, p) + SumQty(sales[req[r].saleId].items, p)

\* C29: when a createSale or a cancelSale has completed in the other handler,
\* the step in which an adjustStock that adds or subtracts saves the product
\* changes the committed stock by the amount of the adjustment (the new stock
\* it computed less the stock it read): whatever the other handler committed
\* since the read, its decrement or restoration is still in the stock after
\* the save.
C29_AdjustmentKeepsSaleUpdates ==
  [][\A r \in Slots :
       (/\ req[r].op = "adjustStock" /\ req[r].pc = "save"
        /\ req'[r].pc = "done" /\ req'[r].resp = 200
        /\ \E o \in Slots \ {r} :
             /\ req[o].op \in {"createSale", "cancelSale"}
             /\ req[o].pc = "done" /\ req[o].resp \in {200, 201})
       => products'[req[r].product].stock
            = products[req[r].product].stock
                + (req[r].newStock - req[r].ldStock)]_vars

\* C30: the step that ends a createSale sends a response, and the response
\* is 201 exactly when the step has committed the Sale and the stock the call
\* took; a call that ends otherwise leaves the products and the ledger as
\* they are.
C30_ResponseMatchesCommit ==
  [][\A r \in Slots :
       (/\ \/ Started(r)
           \/ req[r].op = "createSale" /\ req[r].pc # "done" /\ OwnStep(r)
        /\ req'[r].op = "createSale" /\ req'[r].pc = "done")
       => /\ req'[r].resp # 0
          /\ req'[r].resp = 201 <=> Len(sales') = Len(sales) + 1
          /\ req'[r].resp # 201 => (products' = products /\ sales' = sales)]_vars

====
